---- MODULE Spec2Model ----
(***************************************************************************)
(* Model of the Export-This extension (src/src/extension.ts).              *)
(*                                                                         *)
(* Strings are sequences of one-character strings, so that indexOf,        *)
(* replace, basename, dirname and join are computed character by character *)
(* as the JavaScript does.  Every "await" of the source is a suspension    *)
(* point: one action of the model runs a handler from one await to the     *)
(* next, as the single-threaded extension host does.                       *)
(***************************************************************************)
EXTENDS Integers, Sequences, FiniteSets, TLC

VARIABLES
    wsFolders,   \* vscode.workspace.workspaceFolders: sequence of root paths
    content,     \* path -> lines of the file/document (DOMAIN = files that exist)
    active,      \* vscode.window.activeTextEditor's document path, or NoEditor
    openDocs,    \* the source documents the host currently holds open
    closed,      \* history: documents whose close event was handled, not reopened
    markers,     \* the diagnostic collection: path -> sequence of diagnostics
    phase,       \* "inactive" | "activating" | "active" | "failed" (activate())
    tasks,       \* slot -> suspended handler invocation, or Idle
    exports,     \* history: number of edits applied by the command
    last         \* history: the handler invocation the last step completed, if any

vars == <<wsFolders, content, active, openDocs, closed, markers, phase, tasks,
          exports, last>>

----------------------------------------------------------------------------
(* Bounds of the model *)

MaxTasks == 2

MaxExports == 1

MaxCommands == 2

DeepLevels == 100

(* Program constant: the failsafe of the upward walk *)
MaxIter == 100

----------------------------------------------------------------------------
(* Strings *)

SLASH == <<"/">>

DOT == <<".">>

DOTDOT == <<".", ".">>

INDEX_TS == <<"i", "n", "d", "e", "x", ".", "t", "s">>

TS_EXT == <<".", "t", "s">>

EXPORT == <<"e", "x", "p", "o", "r", "t">>

EXPORT_THIS_MENTION == "export_this_mention"

SetMin(S) == CHOOSE x \in S : \A y \in S : x <= y

SetMax(S) == CHOOSE x \in S : \A y \in S : x >= y

(* The 0-based start positions at which pat occurs in s *)
Occurrences(s, pat) ==
    {i \in 0..(Len(s) - Len(pat)) : SubSeq(s, i + 1, i + Len(pat)) = pat}

LeastOrNone(S) == IF S = {} THEN -1 ELSE SetMin(S)

GreatestOrNone(S) == IF S = {} THEN -1 ELSE SetMax(S)

(* String.prototype.indexOf: the first occurrence, or -1 *)
IndexOf(s, pat) == LeastOrNone(Occurrences(s, pat))

(* String.prototype.lastIndexOf *)
LastIndexOf(s, pat) == GreatestOrNone(Occurrences(s, pat))

(* String.prototype.includes *)
Includes(s, pat) == Occurrences(s, pat) # {}

ReplaceAt(s, i, n, rep) ==
    IF i = -1 THEN s ELSE SubSeq(s, 1, i) \o rep \o SubSeq(s, i + n + 1, Len(s))

(* String.prototype.replace with a string pattern: the first occurrence only *)
StrReplace(s, pat, rep) == ReplaceAt(s, IndexOf(s, pat), Len(pat), rep)

EndsWith(s, suf) ==
    /\ Len(suf) <= Len(s)
    /\ SubSeq(s, Len(s) - Len(suf) + 1, Len(s)) = suf

RECURSIVE JoinWith(_, _)
(* Array.prototype.join, by halves *)
JoinWith(parts, sep) ==
    IF parts = <<>> THEN <<>>
    ELSE IF Len(parts) = 1 THEN parts[1]
    ELSE JoinWith(SubSeq(parts, 1, Len(parts) \div 2), sep) \o sep
            \o JoinWith(SubSeq(parts, Len(parts) \div 2 + 1, Len(parts)), sep)

Distance(x, y) == IF x >= y THEN x - y ELSE y - x

(* The occurrence nearest to the middle of a string of length n *)
MiddleOf(occ, n) ==
    CHOOSE m \in occ : \A o \in occ :
        \/ Distance(2 * m, n) < Distance(2 * o, n)
        \/ Distance(2 * m, n) = Distance(2 * o, n) /\ m <= o

RECURSIVE SplitOn(_, _)
RECURSIVE SplitAmong(_, _, _)
RECURSIVE SplitAround(_, _, _)
(* String.prototype.split on a one-character separator, by halves *)
SplitOn(s, sep) == SplitAmong(s, sep, Occurrences(s, sep))

SplitAmong(s, sep, occ) ==
    IF occ = {} THEN <<s>> ELSE SplitAround(s, sep, MiddleOf(occ, Len(s)))

SplitAround(s, sep, m) ==
    SplitOn(SubSeq(s, 1, m), sep) \o SplitOn(SubSeq(s, m + 2, Len(s)), sep)

----------------------------------------------------------------------------
(* path.posix *)

(* normalizeString: "" and "." are dropped and ".." removes the segment before
   it.  A run of segments resolves to the number of segments it removes from
   what precedes it (up) and the segments it leaves (segs). *)
ResolveOne(s) ==
    IF s = <<>> \/ s = DOT THEN [up |-> 0, segs |-> <<>>]
    ELSE IF s = DOTDOT THEN [up |-> 1, segs |-> <<>>]
    ELSE [up |-> 0, segs |-> <<s>>]

ResolveBoth(a, b) ==
    IF b.up <= Len(a.segs)
    THEN [up |-> a.up, segs |-> SubSeq(a.segs, 1, Len(a.segs) - b.up) \o b.segs]
    ELSE [up |-> a.up + b.up - Len(a.segs), segs |-> b.segs]

RECURSIVE ResolveRun(_)
ResolveRun(segs) ==
    IF segs = <<>> THEN [up |-> 0, segs |-> <<>>]
    ELSE IF Len(segs) = 1 THEN ResolveOne(segs[1])
    ELSE ResolveBoth(ResolveRun(SubSeq(segs, 1, Len(segs) \div 2)),
                     ResolveRun(SubSeq(segs, Len(segs) \div 2 + 1, Len(segs))))

(* above the root of an absolute path ".." is dropped; a relative path keeps it *)
ResolvedSegments(r, allowAbove) ==
    IF allowAbove THEN [k \in 1..r.up |-> DOTDOT] \o r.segs ELSE r.segs

ResolveSegments(segs, allowAbove) == ResolvedSegments(ResolveRun(segs), allowAbove)

NormalizedPath(isAbs, trailing, body) ==
    IF isAbs
    THEN SLASH \o body \o (IF body # <<>> /\ trailing THEN SLASH ELSE <<>>)
    ELSE IF body = <<>> THEN DOT
    ELSE body \o (IF trailing THEN SLASH ELSE <<>>)

(* posix.normalize *)
PosixNormalize(p) ==
    IF p = <<>> THEN DOT
    ELSE NormalizedPath(p[1] = "/", p[Len(p)] = "/",
            JoinWith(ResolveSegments(SplitOn(p, SLASH), p[1] # "/"), SLASH))

JoinNonEmpty(parts) ==
    IF parts = <<>> THEN DOT ELSE PosixNormalize(JoinWith(parts, SLASH))

(* posix.join *)
PosixJoin(parts) == JoinNonEmpty(SelectSeq(parts, LAMBDA x : x # <<>>))

RECURSIVE StripTrailingSlashes(_)
StripTrailingSlashes(p) ==
    IF Len(p) > 1 /\ p[Len(p)] = "/"
    THEN StripTrailingSlashes(SubSeq(p, 1, Len(p) - 1))
    ELSE p

DirnameAt(q, i) ==
    IF i = -1 THEN DOT
    ELSE IF i = 0 THEN SLASH
    ELSE StripTrailingSlashes(SubSeq(q, 1, i))

DirnameOf(q) == DirnameAt(q, LastIndexOf(q, SLASH))

(* posix.dirname *)
PosixDirname(p) == IF p = <<>> THEN DOT ELSE DirnameOf(StripTrailingSlashes(p))

BasenameOf(q) == IF q = SLASH THEN <<>> ELSE SubSeq(q, LastIndexOf(q, SLASH) + 2, Len(q))

(* posix.basename(p) *)
PosixBasename(p) == BasenameOf(StripTrailingSlashes(p))

StripExt(b, ext) ==
    IF EndsWith(b, ext) /\ b # ext THEN SubSeq(b, 1, Len(b) - Len(ext)) ELSE b

(* posix.basename(p, ext): the extension is removed when the name ends with it
   and is not the extension itself *)
PosixBasenameExt(p, ext) == StripExt(PosixBasename(p), ext)

----------------------------------------------------------------------------
(* vscode values *)

(* window.activeTextEditor === undefined *)
NoEditor == <<"undefined">>

(* the null a function returns *)
Null == <<"null">>

MSG_NO_WORKSPACE == "No folder/workspace open."

MSG_NO_ACTIVE == "Error loading active file."

MSG_NO_INDEX == "Unable to find an index.ts file to export to"

MSG_NO_RELPATH == "Unable to construct the relative path"

MSG_INSERT == "Error inserting export snippet."

SEVERITY_HINT == "Hint"

(* vscode.Uri.file(path).path for a posix path *)
UriFile(path) == IF path # <<>> /\ path[1] = "/" THEN path ELSE SLASH \o path

(* TextDocument.getText(): the lines joined by line feeds *)
GetText(lines) == JoinWith(lines, <<"\n">>)

----------------------------------------------------------------------------
(* findIndex (lines 167-220) *)

(* The locals of one findIndex call.  probes counts its fs.stat calls and
   value is what it returned. *)
NoWalk ==
    [workspacePath |-> Null, filePath |-> NoEditor, indexPath |-> Null,
     indexUri |-> Null, found |-> FALSE, iteration |-> 0, probes |-> 0,
     value |-> Null]

(* posix.join(filePath.path, '..', 'index.ts') (line 186) *)
FirstIndexPath(filePath) == PosixJoin(<<filePath, DOTDOT, INDEX_TS>>)

(* A walk that climbs two directories at a time *)
ParentIndexPathSkipping(indexUriPath) ==
    PosixJoin(<<indexUriPath, DOTDOT, DOTDOT, DOTDOT, INDEX_TS>>)

(* posix.join(indexUri.path, '..', '..', 'index.ts') (line 209) *)
ParentIndexPath(indexUriPath) ==
    PosixJoin(<<indexUriPath, DOTDOT, DOTDOT, INDEX_TS>>)

(* indexPath.indexOf(workspaceUri.path) === -1 (line 211) *)
LeftWorkspace(indexPath, workspacePath) == IndexOf(indexPath, workspacePath) = -1

(* A failsafe that lets one more iteration through *)
LoopGuardInclusive(found, iteration) == ~found /\ iteration <= MaxIter

(* while (!found && iteration < 100) (line 201) *)
LoopGuard(found, iteration) == ~found /\ iteration < MaxIter

(* return indexUri (line 219), whatever found is *)
WalkValue(w) == w.indexUri

(* A step of findIndex ends suspended at fs.stat (susp), or returned w.value *)
WalkReturn(w, shown) ==
    [susp |-> FALSE, w |-> [w EXCEPT !.value = WalkValue(w)], shown |-> shown]

WalkFail(w, shown) == [susp |-> FALSE, w |-> w, shown |-> shown]

(* The head of the while loop: the next probe, or the return *)
WalkLoop(w) ==
    IF LoopGuard(w.found, w.iteration)
    THEN [susp |-> TRUE,
          w |-> [w EXCEPT !.indexUri = w.indexPath, !.probes = w.probes + 1],
          shown |-> <<>>]
    ELSE WalkReturn(w, <<>>)

NewWalk(workspacePath, filePath, indexPath) ==
    [NoWalk EXCEPT !.workspacePath = workspacePath, !.filePath = filePath,
                   !.indexPath = indexPath, !.indexUri = UriFile(indexPath)]

(* findIndex from its call to its first await (lines 169-205) *)
FindIndexBegin(folders, editor) ==
    IF folders = <<>> THEN WalkFail(NoWalk, <<MSG_NO_WORKSPACE>>)
    ELSE IF editor = NoEditor
         THEN WalkFail([NoWalk EXCEPT !.workspacePath = folders[1]], <<MSG_NO_ACTIVE>>)
    ELSE WalkLoop(NewWalk(folders[1], editor, FirstIndexPath(editor)))

(* The catch block (lines 207-216) *)
WalkCatch(w, indexPath) ==
    IF LeftWorkspace(indexPath, w.workspacePath)
    THEN WalkReturn([w EXCEPT !.indexPath = indexPath], <<>>)
    ELSE WalkLoop([w EXCEPT !.indexPath = indexPath, !.iteration = w.iteration + 1])

(* findIndex resumed with the outcome of fs.stat(indexUri), run to its next
   await or to its return *)
FindIndexResume(w, exists) ==
    IF exists
    THEN WalkLoop([w EXCEPT !.found = TRUE])
    ELSE WalkCatch(w, ParentIndexPath(w.indexUri))

----------------------------------------------------------------------------
(* getRelativePath (lines 222-235) *)

(* posix.basename(filePath.path): the name with its extension *)
FileBaseNameKeepExt(filePath) == PosixBasename(filePath)

(* posix.basename(filePath.path, '.ts') *)
FileBaseName(filePath) == PosixBasenameExt(filePath, TS_EXT)

GetRelativePath(indexUri, editor) ==
    IF editor = NoEditor THEN Null
    ELSE StrReplace(PosixDirname(editor), PosixDirname(indexUri), <<>>)
            \o SLASH \o FileBaseName(editor)

(* `export * from '.${relPath}';` (line 40) *)
ExportText(relPath) ==
    <<"e","x","p","o","r","t"," ","*"," ","f","r","o","m"," ","'",".">>
        \o relPath \o <<"'", ";">>

----------------------------------------------------------------------------
(* Handler invocations *)

(* One invocation of an async handler, suspended at an await (pc).  shown,
   sawActive, stable and relFile are history: the messages the invocation has
   shown, whether every read of the active editor gave the scanned document,
   whether no document changed while it ran, and the file getRelativePath
   read. *)
IdleTask ==
    [kind |-> "idle", pc |-> "-", initial |-> FALSE, doc |-> Null,
     lineIndex |-> 0, index |-> 0, diagnostics |-> <<>>, w |-> NoWalk,
     relPath |-> Null, relFile |-> NoEditor, exportText |-> <<>>,
     insertAt |-> <<0, 0>>, base |-> <<>>,
     shown |-> <<>>, sawActive |-> TRUE, stable |-> TRUE]

(* What running a handler up to its next await did: it is suspended (susp),
   or it ended, by an exception (threw) or not, having called
   diagnosticsCollection.set (didSet) or not *)
Outcome(t, susp, threw, didSet) ==
    [t |-> t, susp |-> susp, threw |-> threw, didSet |-> didSet]

(* new vscode.Diagnostic(new Range(lineIndex, index, lineIndex, index + 6),
   'Export file', Hint) with code EXPORT_THIS_MENTION (lines 124-131) *)
Diagnostic(lineIndex, index) ==
    [line |-> lineIndex, start |-> index, end |-> index + Len(EXPORT),
     endLine |-> lineIndex, message |-> "Export file",
     severity |-> SEVERITY_HINT, code |-> EXPORT_THIS_MENTION]

(* lineOfText.text.lastIndexOf(EXPORT) *)
ExportColumnLast(text) == LastIndexOf(text, EXPORT)

(* lineOfText.text.indexOf(EXPORT) (line 102) *)
ExportColumn(text) == IndexOf(text, EXPORT)

(* A scan without the early return for index.ts *)
IsIndexTsNever(doc) == FALSE

(* posix.basename(Uri.file(doc.fileName).path) === 'index.ts' (lines 89-92) *)
IsIndexTs(doc) == PosixBasename(UriFile(doc)) = INDEX_TS

(* The least lineIndex >= from (0-based) whose line includes EXPORT, or -1:
   the lines the for loop passes over without an await (lines 98-100) *)
NextExportLine(lines, from) ==
    LeastOrNone({j \in from..(Len(lines) - 1) : Includes(lines[j + 1], EXPORT)})

(* lines 112-118: relPath, then await openTextDocument *)
ScanWithRelPath(t, relPath) ==
    IF relPath = Null
    THEN Outcome(t, FALSE, FALSE, FALSE)
    ELSE Outcome([t EXCEPT !.relPath = relPath, !.pc = "open"], TRUE, FALSE, FALSE)

(* refreshDiagnostics after "await findIndex()" (lines 107-118) *)
ScanAfterFind(t, editor) ==
    IF t.w.value = Null
    THEN Outcome(t, FALSE, FALSE, FALSE)
    ELSE ScanWithRelPath([t EXCEPT !.relFile = editor,
                                   !.sawActive = t.sawActive /\ editor = t.doc],
                         GetRelativePath(t.w.value, editor))

(* line 105: the scan calls findIndex and is suspended with it, or goes on *)
ScanCallsFind(t, fb, editor) ==
    IF fb.susp
    THEN Outcome([t EXCEPT !.w = fb.w, !.pc = "stat"], TRUE, FALSE, FALSE)
    ELSE ScanAfterFind([t EXCEPT !.w = fb.w, !.shown = t.shown \o fb.shown], editor)

(* The for loop at the next line with EXPORT, or at its end, where it calls
   diagnosticsCollection.set (line 138) *)
ScanAtLine(t, lines, folders, editor, j) ==
    IF j = -1
    THEN Outcome([t EXCEPT !.lineIndex = Len(lines), !.pc = "-"], FALSE, FALSE, TRUE)
    ELSE ScanCallsFind([t EXCEPT !.lineIndex = j,
                                 !.index = ExportColumn(lines[j + 1]),
                                 !.sawActive = t.sawActive /\ editor = t.doc],
                       FindIndexBegin(folders, editor), editor)

(* The for loop of refreshDiagnostics from t.lineIndex to its next await *)
ScanLoop(t, lines, folders, editor) ==
    ScanAtLine(t, lines, folders, editor, NextExportLine(lines, t.lineIndex))

(* the suppression check: text.indexOf(relPath) === -1 (line 122) *)
AlreadyExported(text, relPath) == IndexOf(text, relPath) # -1

(* refreshDiagnostics after "await openTextDocument(indexUri)" (lines 120-136);
   a failed open rejects the scan *)
ScanAfterOpen(t, ok, cont, folders, editor) ==
    IF ~ok
    THEN Outcome(t, FALSE, TRUE, FALSE)
    ELSE ScanLoop([t EXCEPT !.diagnostics =
                                IF AlreadyExported(GetText(cont[t.w.value]), t.relPath)
                                THEN t.diagnostics
                                ELSE Append(t.diagnostics, Diagnostic(t.lineIndex, t.index)),
                            !.lineIndex = t.lineIndex + 1],
                  cont[t.doc], folders, editor)

(* refreshDiagnostics(doc, collection) up to its first await *)
RefreshDiagnostics(doc, initial, cont, folders, editor) ==
    IF IsIndexTs(doc)
    THEN Outcome([IdleTask EXCEPT !.doc = doc], FALSE, FALSE, FALSE)
    ELSE ScanLoop([IdleTask EXCEPT !.kind = "scan", !.doc = doc, !.initial = initial],
                  cont[doc], folders, editor)

(* lines 35-42: relPath, exportText, then await openTextDocument *)
CommandWithRelPath(t, editor, relPath) ==
    IF relPath = Null
    THEN Outcome([t EXCEPT !.shown = Append(t.shown, MSG_NO_RELPATH)], FALSE, FALSE, FALSE)
    ELSE Outcome([t EXCEPT !.relPath = relPath, !.relFile = editor,
                           !.exportText = ExportText(relPath),
                           !.pc = "open"],
                 TRUE, FALSE, FALSE)

(* the command handler after "await findIndex()" (lines 26-42) *)
CommandAfterFind(t, editor) ==
    IF t.w.value = Null
    THEN Outcome([t EXCEPT !.shown = Append(t.shown, MSG_NO_INDEX)], FALSE, FALSE, FALSE)
    ELSE CommandWithRelPath(t, editor, GetRelativePath(t.w.value, editor))

CommandCallsFind(t, fb, editor) ==
    IF fb.susp
    THEN Outcome([t EXCEPT !.w = fb.w, !.pc = "stat"], TRUE, FALSE, FALSE)
    ELSE CommandAfterFind([t EXCEPT !.w = fb.w, !.shown = t.shown \o fb.shown], editor)

(* the command handler up to its first await (lines 23-24) *)
CommandBegin(folders, editor) ==
    CommandCallsFind([IdleTask EXCEPT !.kind = "cmd", !.doc = editor],
                     FindIndexBegin(folders, editor), editor)

(* the command handler after "await openTextDocument(indexUri)" (line 42): the
   await is outside the try, so a failure rejects the handler *)
CommandAfterOpen(t, ok) ==
    IF ~ok
    THEN Outcome(t, FALSE, TRUE, FALSE)
    ELSE Outcome([t EXCEPT !.pc = "show"], TRUE, FALSE, FALSE)

(* new vscode.Position(textDocument.lineCount, 0) (line 48) *)
InsertPosition(lines) == <<Len(lines), 0>>

(* the command handler after "await showTextDocument(...)" (lines 45-53).  On
   success e.edit() queues the insert and the handler returns without
   awaiting it: pc = "edit" is the queued edit. *)
CommandAfterShow(t, ok, cont) ==
    IF ~ok
    THEN Outcome([t EXCEPT !.shown = Append(t.shown, MSG_INSERT)], FALSE, FALSE, FALSE)
    ELSE Outcome([t EXCEPT !.insertAt = InsertPosition(cont[t.w.value]),
                           !.base = cont[t.w.value],
                           !.pc = "edit"],
                 TRUE, FALSE, FALSE)

(* The host's validation of an edit position: a position past the end is
   moved to the end of the document *)
ValidatePosition(lines, pos) ==
    IF pos[1] >= Len(lines)
    THEN <<Len(lines) - 1, Len(lines[Len(lines)])>>
    ELSE <<pos[1], IF pos[2] > Len(lines[pos[1] + 1]) THEN Len(lines[pos[1] + 1]) ELSE pos[2]>>

InsertValidated(lines, p, text) ==
    [lines EXCEPT ![p[1] + 1] =
        SubSeq(lines[p[1] + 1], 1, p[2]) \o text
            \o SubSeq(lines[p[1] + 1], p[2] + 1, Len(lines[p[1] + 1]))]

(* edit.insert(position, text) applied to the document (text has no line feed) *)
InsertText(lines, pos, text) == InsertValidated(lines, ValidatePosition(lines, pos), text)

----------------------------------------------------------------------------
(* The files of the model *)

RECURSIVE Repeat(_, _)
Repeat(s, n) == IF n = 0 THEN <<>> ELSE s \o Repeat(s, n - 1)

RootDir == SLASH

WsDir == <<"/", "w">>

DirA == WsDir \o <<"/", "a">>

DirB == DirA \o <<"/", "b">>

F_TS == <<"/", "F", ".", "t", "s">>

FileF == DirA \o F_TS

FileG == DirB \o <<"/", "G", ".", "t", "s">>

(* a file DeepLevels directories below the workspace root /w *)
DeepFile == WsDir \o Repeat(<<"/", "a">>, DeepLevels) \o F_TS

BarrelRoot == SLASH \o INDEX_TS

BarrelW == WsDir \o SLASH \o INDEX_TS

BarrelA == DirA \o SLASH \o INDEX_TS

BarrelB == DirB \o SLASH \o INDEX_TS

(* the documents that are not barrels *)
Sources(files) == {p \in DOMAIN files : ~EndsWith(p, SLASH \o INDEX_TS)}

(* document texts: "export" / "x", " export export" / "x" *)
TextExport == <<EXPORT>>

TextTwice == << <<"x">>, <<" ">> \o EXPORT \o <<" ">> \o EXPORT >>

TextPlain == << <<"x">> >>

SourceTexts == {TextTwice, TextPlain}

(* the text of a barrel on disk: "//" and an empty last line, or empty *)
BarrelText(b) == IF b = BarrelA THEN << <<"/", "/">>, <<>> >> ELSE << <<>> >>

BarrelChoices == {{}, {BarrelA}, {BarrelW}, {BarrelA, BarrelW}}

WalkBarrelChoices ==
    {{}, {BarrelA}, {BarrelB}, {BarrelW}, {BarrelA, BarrelB}, {BarrelRoot}}

WalkFiles == {FileF, FileG, DeepFile}

WalkRoots == {WsDir, RootDir, <<"/", "i">>}

Files(sources, barrels) ==
    [p \in sources \cup barrels |->
        IF p \in barrels THEN BarrelText(p)
        ELSE IF p = FileF THEN TextTwice ELSE TextExport]

----------------------------------------------------------------------------
(* State changes shared by the actions *)

Busy(tsk) == {i \in DOMAIN tsk : tsk[i].kind # "idle"}

FreeSlot(tsk) == SetMin(DOMAIN tsk \ Busy(tsk))

CanPlace(tsk, o, n) == o.susp => Cardinality(Busy(tsk)) < n

IsBusy(t) == t.kind # "idle"

(* The pending invocations first: which slot holds which is of no account *)
PackedFrom(tsk, busy) ==
    [i \in DOMAIN tsk |-> IF i <= Len(busy) THEN busy[i] ELSE IdleTask]

Packed(tsk) == PackedFrom(tsk, SelectSeq(tsk, IsBusy))

Place(tsk, o) == Packed(IF o.susp THEN [tsk EXCEPT ![FreeSlot(tsk)] = o.t] ELSE tsk)

(* diagnosticsCollection.set(doc.uri, diagnostics) (line 138) *)
Marked(mk, o) == IF o.didSet THEN [mk EXCEPT ![o.t.doc] = o.t.diagnostics] ELSE mk

Disturbed(tsk) ==
    [i \in DOMAIN tsk |->
        IF tsk[i].kind = "idle" THEN tsk[i] ELSE [tsk[i] EXCEPT !.stable = FALSE]]

NoOutcome == Outcome(IdleTask, FALSE, FALSE, FALSE)

NoLast ==
    [op |-> "none", ok |-> TRUE, t |-> IdleTask, threw |-> FALSE,
     didSet |-> FALSE, changed |-> {}]

(* The invocation that ended in this step, at the await named op *)
Completed(op, ok, o, changed) ==
    IF o.susp \/ o.t.kind = "idle" THEN NoLast
    ELSE [op |-> op, ok |-> ok, t |-> o.t, threw |-> o.threw,
          didSet |-> o.didSet, changed |-> changed]

(* An event handler invoked: it ends at once, or takes a slot *)
Dispatch(tsk, o, n, op) ==
    /\ CanPlace(tsk, o, n)
    /\ tasks' = Place(tsk, o)
    /\ markers' = Marked(markers, o)
    /\ last' = Completed(op, TRUE, o, {})

(* A suspended invocation resumed: it suspends again, or ends.  The end of the
   first scan lets activate() go on to register the handlers (line 14); its
   failure rejects activate(). *)
Resume(i, o, op, ok) ==
    /\ tasks' = Packed([tasks EXCEPT ![i] = IF o.susp THEN o.t ELSE IdleTask])
    /\ markers' = Marked(markers, o)
    /\ phase' = IF tasks[i].initial /\ ~o.susp
                THEN (IF o.threw THEN "failed" ELSE "active")
                ELSE phase
    /\ last' = Completed(op, ok, o, {})

----------------------------------------------------------------------------
(* Initial states *)

InitCommon ==
    /\ markers = [p \in DOMAIN content |-> <<>>]
    /\ closed = {}
    /\ tasks = [i \in 1..MaxTasks |-> IdleTask]
    /\ exports = 0
    /\ last = NoLast

Init ==
    /\ wsFolders \in {<<>>, <<WsDir>>}
    /\ \E barrels \in BarrelChoices : content = Files({FileF}, barrels)
    /\ active \in {NoEditor, FileF}
    /\ openDocs = {active} \ {NoEditor}
    /\ phase = "inactive"
    /\ InitCommon

(* The command alone, over more roots, files and barrels *)
InitWalk ==
    /\ wsFolders \in {<<r>> : r \in WalkRoots}
    /\ \E barrels \in WalkBarrelChoices : content = Files(WalkFiles, barrels)
    /\ active \in WalkFiles
    /\ openDocs = {active}
    /\ phase = "active"
    /\ InitCommon

----------------------------------------------------------------------------
(* Actions *)

ActivateWith(o) ==
    /\ tasks' = Place(tasks, o)
    /\ markers' = Marked(markers, o)
    /\ phase' = IF o.susp THEN "activating" ELSE "active"
    /\ last' = Completed("activate", TRUE, o, {})

(* activate(): subscribeToDocumentChanges scans the active editor first
   (lines 145-147) and registers the handlers only after that scan *)
Activate ==
    /\ phase = "inactive"
    /\ ActivateWith(IF active = NoEditor THEN NoOutcome
                    ELSE RefreshDiagnostics(active, TRUE, content, wsFolders, active))
    /\ UNCHANGED <<wsFolders, content, active, openDocs, closed, exports>>

(* The user shows document e, or closes the last editor:
   onDidChangeActiveTextEditor (lines 149-153) *)
ChangeActiveEditor(e, n) ==
    /\ phase \in {"activating", "active"}
    /\ e \in (Sources(content) \cup {NoEditor}) \ {active}
    /\ Dispatch(tasks,
                IF phase = "active" /\ e # NoEditor
                THEN RefreshDiagnostics(e, FALSE, content, wsFolders, e)
                ELSE NoOutcome,
                n, "editor")
    /\ active' = e
    /\ openDocs' = openDocs \cup ({e} \ {NoEditor})
    /\ closed' = closed \ {e}
    /\ UNCHANGED <<wsFolders, content, phase, exports>>

(* The text of open document d changes: onDidChangeTextDocument (lines 157-159) *)
ChangeText(d, new, n) ==
    /\ phase \in {"activating", "active"}
    /\ d \in openDocs
    /\ new \in SourceTexts \ {content[d]}
    /\ content' = [content EXCEPT ![d] = new]
    /\ Dispatch(Disturbed(tasks),
                IF phase = "active"
                THEN RefreshDiagnostics(d, FALSE, content', wsFolders, active)
                ELSE NoOutcome,
                n, "text")
    /\ UNCHANGED <<wsFolders, active, openDocs, closed, phase, exports>>

(* The host disposes document d, which no editor shows: onDidCloseTextDocument
   deletes its markers (line 163) *)
CloseDocument(d) ==
    /\ phase \in {"activating", "active"}
    /\ d \in openDocs \ {active}
    /\ openDocs' = openDocs \ {d}
    /\ closed' = IF phase = "active" THEN closed \cup {d} ELSE closed
    /\ markers' = IF phase = "active" THEN [markers EXCEPT ![d] = <<>>] ELSE markers
    /\ last' = NoLast
    /\ UNCHANGED <<wsFolders, content, active, phase, tasks, exports>>

(* The user runs export-this.command (line 23), for at most m exports *)
InvokeCommandUpTo(n, m) ==
    /\ phase = "active"
    /\ exports + Cardinality({i \in Busy(tasks) : tasks[i].kind = "cmd"}) < m
    /\ Dispatch(tasks, CommandBegin(wsFolders, active), n, "command")
    /\ UNCHANGED <<wsFolders, content, active, openDocs, closed, phase, exports>>

InvokeCommand(n) == InvokeCommandUpTo(n, MaxExports)

(* The caller of findIndex goes on when it returns *)
AfterStat(t, fr, editor) ==
    IF fr.susp THEN Outcome([t EXCEPT !.w = fr.w], TRUE, FALSE, FALSE)
    ELSE IF t.kind = "scan" THEN ScanAfterFind([t EXCEPT !.w = fr.w], editor)
    ELSE CommandAfterFind([t EXCEPT !.w = fr.w], editor)

(* fs.stat(indexUri) settles for the findIndex call of invocation i (line 205) *)
StatResolves(i) ==
    /\ tasks[i].pc = "stat"
    /\ Resume(i, AfterStat(tasks[i],
                           FindIndexResume(tasks[i].w, tasks[i].w.indexUri \in DOMAIN content),
                           active),
              "stat", TRUE)
    /\ UNCHANGED <<wsFolders, content, active, openDocs, closed, exports>>

(* openTextDocument(indexUri) settles (lines 42 and 118): a file that exists
   loads or fails to, a missing one fails *)
OpenResolves(i, ok) ==
    /\ tasks[i].pc = "open"
    /\ ok \in (IF tasks[i].w.value \in DOMAIN content THEN BOOLEAN ELSE {FALSE})
    /\ Resume(i, IF tasks[i].kind = "scan"
                 THEN ScanAfterOpen(tasks[i], ok, content, wsFolders, active)
                 ELSE CommandAfterOpen(tasks[i], ok),
              "open", ok)
    /\ UNCHANGED <<wsFolders, content, active, openDocs, closed, exports>>

ShowStep(i, o, o2, n, ok) ==
    /\ CanPlace([tasks EXCEPT ![i] = IF o.susp THEN o.t ELSE IdleTask], o2, n + 1)
    /\ tasks' = Place([tasks EXCEPT ![i] = IF o.susp THEN o.t ELSE IdleTask], o2)
    /\ markers' = Marked(markers, o2)
    /\ last' = Completed("show", ok, o, {})

(* showTextDocument(textDocument, 1, false) settles (line 45): the barrel
   becomes the active editor, which fires onDidChangeActiveTextEditor *)
ShowResolves(i, ok, n) ==
    /\ tasks[i].pc = "show"
    /\ ShowStep(i, CommandAfterShow(tasks[i], ok, content),
                IF ok /\ tasks[i].w.value # active /\ phase = "active"
                THEN RefreshDiagnostics(tasks[i].w.value, FALSE, content, wsFolders,
                                        tasks[i].w.value)
                ELSE NoOutcome,
                n, ok)
    /\ active' = IF ok THEN tasks[i].w.value ELSE active
    /\ UNCHANGED <<wsFolders, content, openDocs, closed, phase, exports>>

EditStep(i, o2, ok) ==
    /\ tasks' = Place([(IF ok THEN Disturbed(tasks) ELSE tasks) EXCEPT ![i] = IdleTask], o2)
    /\ markers' = Marked(markers, o2)
    /\ last' = [op |-> "edit", ok |-> ok, t |-> tasks[i], threw |-> FALSE,
                didSet |-> FALSE,
                changed |-> {p \in DOMAIN content : content'[p] # content[p]}]

(* The host applies, or drops, the edit queued by e.edit (lines 47-49); an
   edit computed for an older version of the document is dropped.  An applied
   edit fires onDidChangeTextDocument for the barrel. *)
EditApplies(i, ok) ==
    /\ tasks[i].pc = "edit"
    /\ ok \in (IF content[tasks[i].w.value] = tasks[i].base THEN BOOLEAN ELSE {FALSE})
    /\ content' = IF ok
                  THEN [content EXCEPT ![tasks[i].w.value] =
                            InsertText(@, tasks[i].insertAt, tasks[i].exportText)]
                  ELSE content
    /\ exports' = IF ok THEN exports + 1 ELSE exports
    /\ EditStep(i, IF ok /\ phase = "active"
                   THEN RefreshDiagnostics(tasks[i].w.value, FALSE, content', wsFolders, active)
                   ELSE NoOutcome,
                ok)
    /\ UNCHANGED <<wsFolders, active, openDocs, closed, phase>>

Next ==
    \/ Activate
    \/ \E e \in Sources(content) \cup {NoEditor} : ChangeActiveEditor(e, MaxTasks)
    \/ \E d \in openDocs, new \in SourceTexts : ChangeText(d, new, MaxTasks)
    \/ \E d \in openDocs : CloseDocument(d)
    \/ InvokeCommand(MaxTasks)
    \/ \E i \in 1..MaxTasks : StatResolves(i)
    \/ \E i \in 1..MaxTasks, ok \in BOOLEAN : OpenResolves(i, ok)
    \/ \E i \in 1..MaxTasks, ok \in BOOLEAN : ShowResolves(i, ok, MaxTasks)
    \/ \E i \in 1..MaxTasks, ok \in BOOLEAN : EditApplies(i, ok)

Spec == Init /\ [][Next]_vars

NextWalk ==
    \/ InvokeCommand(1)
    \/ \E i \in 1..MaxTasks : StatResolves(i)
    \/ \E i \in 1..MaxTasks, ok \in BOOLEAN : OpenResolves(i, ok)
    \/ \E i \in 1..MaxTasks, ok \in BOOLEAN : ShowResolves(i, ok, 1)
    \/ \E i \in 1..MaxTasks, ok \in BOOLEAN : EditApplies(i, ok)

SpecWalk == InitWalk /\ [][NextWalk]_vars

(* The command run more than once, with the user changing editors meanwhile:
   two source files whose lines hold no 'export', so that their scans end at
   the loop (lines 98-100) *)
SwitchBarrelChoices == {{BarrelA}, {BarrelB}, {BarrelA, BarrelB}, {BarrelW}, {BarrelW, BarrelB}}

SwitchFiles(barrels) ==
    [p \in {FileF, FileG} \cup barrels |->
        IF p \in barrels THEN BarrelText(p) ELSE TextPlain]

InitSwitch ==
    /\ wsFolders = <<WsDir>>
    /\ \E barrels \in SwitchBarrelChoices : content = SwitchFiles(barrels)
    /\ active \in {FileF, FileG}
    /\ openDocs = {active}
    /\ phase = "active"
    /\ InitCommon

NextSwitch ==
    \/ \E e \in Sources(content) \cup {NoEditor} : ChangeActiveEditor(e, MaxTasks)
    \/ InvokeCommandUpTo(MaxTasks, MaxCommands)
    \/ \E i \in 1..MaxTasks : StatResolves(i)
    \/ \E i \in 1..MaxTasks, ok \in BOOLEAN : OpenResolves(i, ok)
    \/ \E i \in 1..MaxTasks, ok \in BOOLEAN : ShowResolves(i, ok, MaxTasks)
    \/ \E i \in 1..MaxTasks, ok \in BOOLEAN : EditApplies(i, ok)

SpecSwitch == InitSwitch /\ [][NextSwitch]_vars

----------------------------------------------------------------------------
(* What the claims speak of, stated on paths and texts *)

(* The directory that ends before the slash at position i of path p *)
DirAt(p, i) == IF i = 0 THEN SLASH ELSE SubSeq(p, 1, i)

(* The directory of file p and every directory above it *)
DirsAbove(p) == {DirAt(p, i) : i \in Occurrences(p, SLASH)}

DirOfFile(p) == DirAt(p, LastIndexOf(p, SLASH))

(* The index.ts of directory d *)
IndexIn(d) == IF d = SLASH THEN SLASH \o INDEX_TS ELSE d \o SLASH \o INDEX_TS

(* The chain from the directory of file p up to root W; empty when p is not
   inside W *)
Chain(p, W) ==
    IF W \in DirsAbove(p) THEN {d \in DirsAbove(p) : Len(d) >= Len(W)} ELSE {}

(* The directories of the chain that hold an index.ts *)
BarrelDirs(p, W, files) == {d \in Chain(p, W) : IndexIn(d) \in DOMAIN files}

(* The directory of dirs closest to the file: the longest *)
Nearest(dirs) == CHOOSE d \in dirs : \A e \in dirs : Len(e) <= Len(d)

(* How many directories of the chain lie below d *)
LevelsAbove(p, W, d) == Cardinality({c \in Chain(p, W) : Len(c) > Len(d)})

IsPrefix(a, b) == Len(a) <= Len(b) /\ SubSeq(b, 1, Len(a)) = a

NameOf(p) == SubSeq(p, LastIndexOf(p, SLASH) + 2, Len(p))

WithoutTs(name) ==
    IF Len(name) > 3 /\ SubSeq(name, Len(name) - 2, Len(name)) = <<".", "t", "s">>
    THEN SubSeq(name, 1, Len(name) - 3)
    ELSE name

(* <suffix>/<basename>: the directory of file f with the directory of barrel b
   removed from its front, then the name of f without .ts *)
Specifier(f, b) ==
    SubSeq(DirOfFile(f), Len(DirOfFile(b)) + 1, Len(DirOfFile(f)))
        \o SLASH \o WithoutTs(NameOf(f))

Statement(f, b) ==
    <<"e","x","p","o","r","t"," ","*"," ","f","r","o","m"," ","'",".">>
        \o Specifier(f, b) \o <<"'", ";">>

(* The invocation has its answer from findIndex *)
FindReturned(t) == t.pc \in {"open", "show", "edit"}

----------------------------------------------------------------------------
(* C1 *)

FoundNearest(w, dirs) == w.value = IndexIn(Nearest(dirs))

NearestAtAnyDepth(w, dirs) == dirs # {} => FoundNearest(w, dirs)

NearestWithinCap(w, dirs) ==
    (dirs # {} /\ LevelsAbove(w.filePath, w.workspacePath, Nearest(dirs)) < 100)
        => FoundNearest(w, dirs)

(* C1 as stated: whenever some directory on the chain from the active file's
   directory D up to the workspace root W holds an index.ts, findIndex returns
   the index.ts of the directory of the chain closest to D.  The walk gives up
   after 100 probes, so this fails for a barrel 100 or more levels above D. *)
C1_NearestAtAnyDepth ==
    \A i \in DOMAIN tasks :
        FindReturned(tasks[i]) =>
            NearestAtAnyDepth(tasks[i].w,
                BarrelDirs(tasks[i].w.filePath, tasks[i].w.workspacePath, content))

(* C1, amended: whenever the closest index.ts on the chain from D up to W is
   fewer than 100 directories above D, findIndex returns that index.ts, never
   one further up. *)
C1_NearestWithinCap ==
    \A i \in DOMAIN tasks :
        FindReturned(tasks[i]) =>
            NearestWithinCap(tasks[i].w,
                BarrelDirs(tasks[i].w.filePath, tasks[i].w.workspacePath, content))

(* findIndex has returned the only barrel of the chain, 99 directories above
   the file, at its 100th probe *)
C1_Witness ==
    \E i \in DOMAIN tasks :
        /\ tasks[i].pc = "open"
        /\ tasks[i].w.filePath = DeepFile
        /\ tasks[i].w.workspacePath = WsDir
        /\ BarrelDirs(DeepFile, WsDir, content) = {DirA}
        /\ tasks[i].w.probes = 100
        /\ tasks[i].w.value = BarrelA

----------------------------------------------------------------------------
(* C2 *)

OnlyUnableToFind(t, op) == t.shown = <<MSG_NO_INDEX>> /\ op = "stat"

NoBarrelOnChain(p, W, files) == Chain(p, W) # {} /\ BarrelDirs(p, W, files) = {}

(* C2: an export command invoked with a workspace and an active file, and no
   index.ts from the file's directory up to the workspace root, ends having
   shown 'Unable to find an index.ts file to export to' and nothing else, and
   without having tried to open a document. *)
C2_UnableToFindShown ==
    (/\ last.t.kind = "cmd"
     /\ last.t.w.filePath # NoEditor
     /\ last.t.w.workspacePath # Null
     /\ NoBarrelOnChain(last.t.w.filePath, last.t.w.workspacePath, content))
        => OnlyUnableToFind(last.t, last.op)

----------------------------------------------------------------------------
(* C3 *)

(* C3: when the edit of an export command is applied, for F the active file
   (when the command looked for the barrel and when it built the statement)
   and barrel B in the directory of F or one above it, the text of B is its
   previous text followed by exactly export * from '.<suffix>/<basename>';
   and no other file has changed. *)
C3_StatementAppended ==
    (/\ last.op = "edit"
     /\ last.ok
     /\ last.t.w.filePath = last.t.doc
     /\ last.t.relFile = last.t.doc
     /\ IsPrefix(DirOfFile(last.t.w.value), DirOfFile(last.t.doc)))
        => /\ GetText(content[last.t.w.value])
                = GetText(last.t.base) \o Statement(last.t.doc, last.t.w.value)
           /\ last.changed = {last.t.w.value}

(* the export of /w/a/b/G.ts into /w/a/index.ts has been applied *)
C3_Witness ==
    /\ last.op = "edit"
    /\ last.ok
    /\ last.t.doc = FileG
    /\ last.t.w.value = BarrelA
    /\ last.t.base = << <<"/", "/">>, <<>> >>
    /\ content[BarrelA] =
         << <<"/", "/">>,
            <<"e","x","p","o","r","t"," ","*"," ","f","r","o","m"," ",
              "'",".","/","b","/","G","'",";">> >>

----------------------------------------------------------------------------
(* C4 *)

(* C4: a document whose close event has been handled, and that was not opened
   again, has no markers once no handler invocation is pending. *)
C4_ClosedHasNoMarkers ==
    \A d \in closed : Busy(tasks) = {} => markers[d] = <<>>

----------------------------------------------------------------------------
(* C5 *)

MentionLines(lines) ==
    SelectSeq([j \in 1..Len(lines) |-> j - 1],
              LAMBDA j : Occurrences(lines[j + 1], EXPORT) # {})

MarkerOn(j, start) ==
    [line |-> j, start |-> start, end |-> start + 6, endLine |-> j,
     message |-> "Export file", severity |-> "Hint",
     code |-> "export_this_mention"]

MarkersOn(lines, ml) ==
    [k \in 1..Len(ml) |-> MarkerOn(ml[k], SetMin(Occurrences(lines[ml[k] + 1], EXPORT)))]

(* One marker for each line with 'export', at its first occurrence *)
ExpectedMarkers(lines) == MarkersOn(lines, MentionLines(lines))

BarrelLacks(doc, barrel, files) ==
    Occurrences(GetText(files[barrel]), Specifier(doc, barrel)) = {}

MarkedWhenLacking(doc, dirs) ==
    (dirs # {} /\ BarrelLacks(doc, IndexIn(Nearest(dirs)), content))
        => markers[doc] = ExpectedMarkers(content[doc])

(* A scan that ended without an exception, during which no document changed *)
QuietScanEnded == last.t.kind = "scan" /\ ~last.threw /\ last.t.stable /\ wsFolders # <<>>

(* C5: after a scan of a document that was the active one throughout and did
   not change meanwhile, whose nearest barrel exists, was opened and lacks the
   document's specifier, the document's markers are exactly one per line
   containing 'export', on that line, over columns [i, i+6) for i the first
   occurrence, of hint severity and code 'export_this_mention'. *)
C5_OneMarkerPerMention ==
    (QuietScanEnded /\ last.t.sawActive)
        => MarkedWhenLacking(last.t.doc, BarrelDirs(last.t.doc, wsFolders[1], content))

(* the scan of /w/a/F.ts, with lines "x" and " export export", has marked
   line 1 at columns [1, 7) *)
C5_Witness ==
    /\ QuietScanEnded
    /\ last.t.sawActive
    /\ last.t.doc = FileF
    /\ content[FileF] = TextTwice
    /\ BarrelDirs(FileF, wsFolders[1], content) # {}
    /\ markers[FileF] =
         << [line |-> 1, start |-> 1, end |-> 7, endLine |-> 1,
             message |-> "Export file", severity |-> "Hint",
             code |-> "export_this_mention"] >>

----------------------------------------------------------------------------
(* C6 *)

UnmarkedWhenExported(doc, dirs) ==
    (dirs # {} /\ ~BarrelLacks(doc, IndexIn(Nearest(dirs)), content))
        => markers[doc] = <<>>

(* C6: after a scan of document d, if the text of d's nearest barrel contains
   d's specifier, d has no markers. *)
C6_SuppressedWhenExported ==
    QuietScanEnded
        => UnmarkedWhenExported(last.t.doc, BarrelDirs(last.t.doc, wsFolders[1], content))

----------------------------------------------------------------------------
(* C7 *)

(* C7: in every reachable state a document named index.ts has no markers. *)
C7_BarrelNeverMarked ==
    \A p \in DOMAIN content : EndsWith(p, SLASH \o INDEX_TS) => markers[p] = <<>>

(* the barrel holds an export statement, was shown and changed, and every
   handler has ended *)
C7_Witness ==
    /\ phase = "active"
    /\ active = BarrelA
    /\ exports = 1
    /\ Occurrences(GetText(content[BarrelA]), EXPORT) # {}
    /\ Busy(tasks) = {}
    /\ markers[BarrelA] = <<>>

----------------------------------------------------------------------------
(* C8 *)

(* C8: when no directory from the active file's directory up to the workspace
   root holds an index.ts, findIndex returns no URI to its caller. *)
C8_NotFoundReported ==
    \A i \in DOMAIN tasks :
        (/\ FindReturned(tasks[i])
         /\ NoBarrelOnChain(tasks[i].w.filePath, tasks[i].w.workspacePath, content))
            => tasks[i].w.value = Null

----------------------------------------------------------------------------
(* C9 *)

WithinProbes(w) == w.probes <= 100 /\ w.iteration <= 100

(* C9: a call of findIndex makes at most 100 existence probes, and is not
   waiting for a probe once it has counted 100 misses. *)
C9_AtMostHundredProbes ==
    /\ WithinProbes(last.t.w)
    /\ \A i \in DOMAIN tasks :
        /\ WithinProbes(tasks[i].w)
        /\ tasks[i].pc = "stat" => tasks[i].w.iteration < 100

(* under workspace root "/" the candidate stayed at /index.ts, and findIndex
   returned after its 100th probe *)
C9_Witness ==
    \E i \in DOMAIN tasks :
        /\ tasks[i].pc = "open"
        /\ tasks[i].w.workspacePath = RootDir
        /\ tasks[i].w.indexPath = BarrelRoot
        /\ ~tasks[i].w.found
        /\ tasks[i].w.probes = 100

----------------------------------------------------------------------------
(* C10 *)

(* C10: an export command that located its barrel and then failed to open it,
   to show it or to apply the edit has shown an error message, and has changed
   no file. *)
C10_FailureShowsMessage ==
    (/\ last.t.kind = "cmd"
     /\ last.t.w.found
     /\ last.op \in {"open", "show", "edit"}
     /\ ~last.ok)
        => last.t.shown # <<>> /\ last.changed = {}

----------------------------------------------------------------------------
(* C11 *)

(* The lookup w could resolve no barrel: no workspace, no active editor, or no
   index.ts from the file's directory up to the workspace root *)
Unresolved(w, folders, files) ==
    \/ folders = <<>>
    \/ w.workspacePath # Null /\ w.filePath = NoEditor
    \/ /\ w.workspacePath # Null
       /\ w.filePath # NoEditor
       /\ NoBarrelOnChain(w.filePath, w.workspacePath, files)

(* C11: a scan that could resolve no barrel has ended without an exception
   and without showing a message. *)
C11_UnresolvedScanSilent ==
    (last.t.kind = "scan" /\ Unresolved(last.t.w, wsFolders, content))
        => last.t.shown = <<>> /\ ~last.threw

----------------------------------------------------------------------------
(* C12 *)

(* C12: after a scan of document d that could resolve no barrel, d has no
   markers: the markers of earlier scans are gone. *)
C12_UnresolvedScanClearsMarkers ==
    (last.t.kind = "scan" /\ Unresolved(last.t.w, wsFolders, content))
        => markers[last.t.doc] = <<>>

----------------------------------------------------------------------------
(* C13 *)

PreconditionMessage(folders) ==
    IF folders = <<>> THEN "No folder/workspace open." ELSE "Error loading active file."

(* C13: an export command invoked with no workspace folder, or with no active
   editor, has shown exactly one message, the one of the missing
   precondition, has probed no file, and has ended at once, with no document
   opened or changed. *)
C13_OnePreconditionMessage ==
    (last.t.kind = "cmd" /\ (wsFolders = <<>> \/ last.t.doc = NoEditor))
        => /\ last.t.shown = <<PreconditionMessage(wsFolders)>>
           /\ last.t.w.probes = 0
           /\ last.op = "command"
           /\ last.changed = {}

----------------------------------------------------------------------------
(* C14 *)

(* Directory d is root W or lies below it *)
InsideRoot(d, W) ==
    \/ d = W
    \/ IsPrefix(IF W = SLASH THEN SLASH ELSE W \o SLASH, d)

(* C14: an index.ts that findIndex found lies in the workspace root directory
   or in a directory below it. *)
C14_ReturnedInsideWorkspace ==
    \A i \in DOMAIN tasks :
        (FindReturned(tasks[i]) /\ tasks[i].w.found)
            => InsideRoot(DirOfFile(tasks[i].w.value), tasks[i].w.workspacePath)

----------------------------------------------------------------------------
(* C15 *)

(* The markers document d should carry: those of its mention lines when the
   text of its nearest barrel lacks its specifier, none otherwise *)
OwnMarkers(d, W, files) ==
    IF BarrelDirs(d, W, files) = {}
    THEN <<>>
    ELSE IF BarrelLacks(d, IndexIn(Nearest(BarrelDirs(d, W, files))), files)
         THEN ExpectedMarkers(files[d])
         ELSE <<>>

(* C15: when a scan of document d, during which neither d nor a barrel
   changed, has stored markers for d, they are the markers that d's own path,
   lines and nearest barrel call for, whichever document was active. *)
C15_MarkersOfOwnDocument ==
    (last.t.kind = "scan" /\ last.didSet /\ last.t.stable /\ wsFolders # <<>>)
        => markers[last.t.doc] = OwnMarkers(last.t.doc, wsFolders[1], content)

----------------------------------------------------------------------------
(* C16 *)

(* C16: once every scan has ended, the last of them to end being one that a
   change event started with the document in the active editor, a document
   whose barrel was never edited and lacks its specifier has the markers of
   its present lines. *)
C16_LatestScanWins ==
    (/\ last.t.kind = "scan"
     /\ last.didSet
     /\ last.t.sawActive
     /\ ~last.t.initial
     /\ exports = 0
     /\ Busy(tasks) = {}
     /\ phase = "active"
     /\ wsFolders # <<>>
     /\ active = last.t.doc
     /\ BarrelDirs(last.t.doc, wsFolders[1], content) # {}
     /\ BarrelLacks(last.t.doc,
                    IndexIn(Nearest(BarrelDirs(last.t.doc, wsFolders[1], content))),
                    content))
        => markers[last.t.doc] = ExpectedMarkers(content[last.t.doc])

----------------------------------------------------------------------------
(* C17 *)

(* The directory F with the directory I taken from its front when I is a
   textual prefix of it, F as it is otherwise; then '/' and the name N *)
PrefixRemoved(I, F, N) ==
    (IF IsPrefix(I, F) THEN SubSeq(F, Len(I) + 1, Len(F)) ELSE F) \o SLASH \o N

BeginsDotSlash(text) ==
    IsPrefix(<<"e","x","p","o","r","t"," ","*"," ","f","r","o","m"," ","'",".","/">>,
             text)

(* C17: the relative path a command computed is the file's directory with the
   barrel's directory removed from its front, '/' and the base name, and the
   module path of the statement built from it begins with './'. *)
C17_PrefixRemovedDotSlash ==
    \A i \in DOMAIN tasks :
        (tasks[i].kind = "cmd" /\ FindReturned(tasks[i]))
            => /\ tasks[i].relPath =
                    PrefixRemoved(DirOfFile(tasks[i].w.value),
                                  DirOfFile(tasks[i].relFile),
                                  WithoutTs(NameOf(tasks[i].relFile)))
               /\ BeginsDotSlash(tasks[i].exportText)

----------------------------------------------------------------------------
(* C18 *)

LastLine(lines) == lines[Len(lines)]

(* C18: when a command's edit has been applied, the barrel it edited ends with
   the statement for the file from which that barrel was looked up. *)
C18_StatementNamesLookedUpFile ==
    (last.op = "edit" /\ last.ok)
        => EndsWith(LastLine(content[last.t.w.value]),
                    Statement(last.t.w.filePath, last.t.w.value))

----------------------------------------------------------------------------
(* C19 *)

SelfExport ==
    <<"e","x","p","o","r","t"," ","*"," ","f","r","o","m"," ","'",".","/",
      "i","n","d","e","x","'",";">>

(* C19: no index.ts holds the statement export * from './index'; *)
C19_NoSelfExport ==
    \A p \in DOMAIN content :
        EndsWith(p, SLASH \o INDEX_TS) => Occurrences(GetText(content[p]), SelfExport) = {}

====
